---- MODULE Spec2Model ----
(***************************************************************************)
(* Session and turn-coordination layer of voice_audio:                     *)
(*   voice/voice_class.py  Speaker, Listener, Conversation                 *)
(*   voice/vosk_server.py  VoskServer and its Flask endpoints              *)
(* Every thread of the program is a process with a program counter; an     *)
(* action is one step of a handler between two accesses to shared state.   *)
(***************************************************************************)
EXTENDS Integers, Sequences, FiniteSets, TLC

\* ------------------------------------------------------------------ bounds
MaxMsgs    == 2     \* append_message calls per role
MaxN       == 3     \* largest n passed to get_last_n_messages
MaxThreads == 2     \* capture threads started in one run
NumStarts  == 2     \* POST /listen requests in one run
NumSpeaks  == 1     \* threads calling speak() from outside the capture loop
MaxTime    == 1     \* largest value of the clock
MaxWords   == 3     \* words in a fragment given to is_valid_text

\* --------------------------------------------------------------- constants
Roles    == {"assistant", "user"}
NoRole   == "none"                    \* role=None of get_last_n_messages
NoCount  == 0 - 1                     \* listen_start_user_count = None

\* Texts are sequences of words.
PAUSE_COMMANDS ==
    { <<"stop", "recording">>, <<"stop", "listening">>, <<"end", "recording">>,
      <<"end", "listening">>, <<"okay", "thanks">>, <<"okay", "bye">>,
      <<"thank", "you", "bye">>, <<"thanks", "bye">>, <<"alright", "thanks">>,
      <<"alright", "bye">>, <<"forget", "it", "bye">>, <<"that's", "all", "bye">>,
      <<"okay", "that's", "it">>, <<"okay", "that's", "all">>, <<"hold", "it">> }
EXIT_COMMANDS ==
    { <<"over", "and", "out">>, <<"thank", "you", "and", "good", "bye">>,
      <<"good", "bye">>, <<"exit">>, <<"quit">>,
      <<"thank", "you", "and", "goodbye">>, <<"goodbye">> }
INVALID_TERMS == { <<"the">>, <<"I">> }

\* What a caller of append_message passes as content; what the recognizer
\* returns for a chunk: nothing final, content, a pause phrase, an exit
\* phrase; and what FinalResult() returns: one of these or a filler.  (For a
\* chunk a filler does what the empty text does; is_valid_text is applied to
\* fillers in SpecClassify.)
Contents == { <<"light">>, <<"door">> }
Heard    == { <<>>, <<"light">>, <<"hold", "it">>, <<"goodbye">> }
Trailing == Heard \cup { <<"the">> }

\* ------------------------------------------------------------------- state
VARIABLES
    \* Conversation
    messages,       \* Conversation.messages: role -> list of messages
    msg_count,      \* Conversation.msg_count_user / msg_count_assistant
    now,            \* time.time()
    \* threads
    pc,             \* position of every thread
    retpc,          \* where a thread goes on after the call it is in
    apMsg,          \* append_message: the local msg of each caller
    apTmp,          \* append_message: the counter value read by +=
    joinTarget,     \* pause_recording: the thread a caller joins
    \* Listener
    recording,          \* Listener.recording
    running,            \* Listener.running
    recording_thread,   \* Listener.recording_thread (0 is None)
    text,               \* Listener.text
    silence_expired,    \* time.time() - last_speech_time > timeout
    \* Speaker
    tts_lock,           \* Speaker.tts_lock: the thread holding it
    speaking_flag,      \* GLOBAL_SPEAKING_FLAG
    cm_running,         \* ConversationManager.running, read by the response thread
    \* VoskServer
    listen_start_user_count,    \* the session baseline (NoCount is None)
    is_listening,               \* VoskServer.is_listening
    listening_lock,             \* VoskServer.listening_lock: its holder
    server_running,             \* VoskServer.running; unset counts as TRUE
    \* the transcript file
    file,           \* MESSAGES_FILE: absent, torn (cut by open "w") or a JSON list
    saver,          \* the threads running _save_message_to_file
    \* history
    issued,         \* append_message calls made, per role
    getArg,         \* the get_last_n_messages call of the last step, if it was one
    getRet,         \* what that call returned
    resRet,         \* what result() returned, if the last step was that call
    epoch,          \* accepted start() calls (baselines recorded)
    launches,       \* capture threads started
    baseLen,        \* length of the user list when the baseline was recorded
    chunk_hot,      \* per capture thread: its chunk was read with the flag set
    timed_out,      \* the silence timeout has ended Recording since the last baseline
    \* VoskClient
    client          \* is_listening, the position of the toggle thread, the requests
                    \* that reached the server, and how the last polling ended

vConv  == <<messages, msg_count, now>>
vAp    == <<apMsg, apTmp>>
vLis   == <<recording, running, recording_thread, text, silence_expired>>
vSpk   == <<tts_lock, speaking_flag, cm_running>>
vSrv   == <<listen_start_user_count, is_listening, listening_lock, server_running>>
vObs   == <<getArg, getRet, resRet>>
vHist  == <<epoch, launches, baseLen, chunk_hot, timed_out>>
vFile  == <<file, saver>>

vars == <<vConv, pc, retpc, vAp, joinTarget, vLis, vSpk, vSrv, issued, vObs,
          vHist, vFile, client>>

\* ----------------------------------------------------------------- threads
Caps      == {<<"cap", i>> : i \in 1..MaxThreads}      \* record_audio threads
Starts    == {<<"start", i>> : i \in 1..NumStarts}     \* trigger_listen threads
Holds     == {<<"hold", 1>>}                            \* hold_listen thread
Readers   == {<<"result", 1>>}                          \* GET /result
Speakers  == {<<"speak", i>> : i \in 1..NumSpeaks}     \* callers of speak()
Appenders == {<<"app", r>> : r \in Roles}              \* callers of append_message
Stoppers  == {<<"stop", 1>>}                            \* POST /stop
Mains     == {<<"main", 1>>}                            \* the main thread (App.run)
Procs     == Caps \cup Starts \cup Holds \cup Readers \cup Speakers \cup Appenders
                 \cup Stoppers \cup Mains
NoProc    == <<"none", 0>>

NoMsg == [role |-> NoRole, content |-> <<>>, msg_timestamp |-> 0]

\* One writer thread per append_message call.
MaxSavers == MaxMsgs + MaxMsgs
Savers    == 1..MaxSavers
NoSaver   == [pc |-> "unborn", msg |-> NoMsg, local |-> <<>>]

\* MESSAGES_FILE before the first write, after open(..., "w") has cut it, and
\* holding the JSON list a dump wrote.
NoFile       == [state |-> "absent", data |-> <<>>]
TornFile     == [state |-> "torn", data |-> <<>>]
JsonFile(ms) == [state |-> "ok", data |-> ms]

\* ------------------------------------------------------------ pure helpers
Min(a, b) == IF a < b THEN a ELSE b
Max(a, b) == IF a > b THEN a ELSE b

\* Python s[i:] for a list s and any integer i.
PySliceFrom(s, i) ==
    LET n     == Len(s)
        start == IF i < 0 THEN Max(n + i, 0) ELSE Min(i, n)
    IN  SubSeq(s, start + 1, n)

\* Python s[-n:].  -n is 0 for n = 0, so s[-0:] is s[0:].
PyLast(s, n) == PySliceFrom(s, 0 - n)

\* list.sort(key=msg_timestamp): a stable sort.
RECURSIVE InsertByTs(_, _)
InsertByTs(s, m) ==
    IF s = <<>> THEN <<m>>
    ELSE IF s[Len(s)].msg_timestamp <= m.msg_timestamp THEN Append(s, m)
    ELSE Append(InsertByTs(SubSeq(s, 1, Len(s) - 1), m), s[Len(s)])

RECURSIVE SortByTs(_)
SortByTs(s) ==
    IF s = <<>> THEN <<>>
    ELSE InsertByTs(SortByTs(SubSeq(s, 1, Len(s) - 1)), s[Len(s)])

IsPrefix(s, t) == Len(s) <= Len(t) /\ SubSeq(t, 1, Len(s)) = s

\* result(): {"result": None} or {"result": msgs}
NotReady    == [called |-> TRUE, ready |-> FALSE, msgs |-> <<>>]
Ready(msgs) == [called |-> TRUE, ready |-> TRUE, msgs |-> msgs]
NoResult    == [called |-> FALSE, ready |-> FALSE, msgs |-> <<>>]
\* VoskClient after __init__ (line 13): not listening, no toggle thread running
NoClient    == [is_listening |-> FALSE, pc |-> "ready", posted |-> {}, poll_ended |-> "no"]
NoGet       == [called |-> FALSE, role |-> NoRole, n |-> 0]

\* ------------------------------------------------------------ Conversation
\* The list get_last_n_messages reads: self.messages[role], or the new list
\* self.messages["assistant"] + self.messages["user"] when no role is given.
ListRead(msgs, role) ==
    IF role # NoRole THEN msgs[role] ELSE msgs["assistant"] \o msgs["user"]

\* Conversation.get_last_n_messages(role, n)
get_last_n_messages(msgs, role, n) ==
    IF role # NoRole
    THEN LET msgs_r == ListRead(msgs, role)
         IN  IF msgs_r # <<>> THEN PyLast(msgs_r, n) ELSE <<>>
    ELSE LET all_msgs == SortByTs(ListRead(msgs, NoRole))
         IN  IF all_msgs # <<>> THEN PyLast(all_msgs, n) ELSE <<>>

\* A faulty list that puts the new message first.
ListPrepend(msgs, m) == [msgs EXCEPT ![m.role] = <<m>> \o @]

\* self.messages[role].append(msg)
ListAppend(msgs, m) == [msgs EXCEPT ![m.role] = Append(@, m)]

\* A faulty counter that writes back the value it read.
CountWithoutIncrement(cnt, role, read) == [cnt EXCEPT ![role] = read]

\* the counter += 1 writes back the value it read, plus one
CountAfterIncrement(cnt, role, read) == [cnt EXCEPT ![role] = read + 1]

\* append_message, line 314: msg = {role, content, time.time()}; entered from
\* the caller's step, which names where to go on afterwards.
append_message_call(p, role, content, ret) ==
    /\ apMsg' = [apMsg EXCEPT ![p] =
                    [role |-> role, content |-> content, msg_timestamp |-> now]]
    /\ retpc' = [retpc EXCEPT ![p] = ret]
    /\ issued' = [issued EXCEPT ![role] = @ + 1]
    /\ pc' = [pc EXCEPT ![p] = "ap_insert"]

\* line 315: self.messages[role].append(msg)
append_message_insert(p) ==
    /\ pc[p] = "ap_insert"
    /\ messages' = ListAppend(messages, apMsg[p])
    /\ pc' = [pc EXCEPT ![p] = "ap_read"]
    /\ UNCHANGED <<msg_count, now, retpc, vAp, joinTarget, vLis, vSpk, vSrv, issued,
                   vHist>>
    /\ UNCHANGED <<vFile, client>>

\* lines 316-319: the read of self.msg_count_<role> += 1
append_message_read(p) ==
    /\ pc[p] = "ap_read"
    /\ apTmp' = [apTmp EXCEPT ![p] = msg_count[apMsg[p].role]]
    /\ pc' = [pc EXCEPT ![p] = "ap_write"]
    /\ UNCHANGED <<vConv, retpc, apMsg, joinTarget, vLis, vSpk, vSrv, issued, vHist>>
    /\ UNCHANGED <<vFile, client>>

\* line 324: threading.Thread(target=self._save_message_to_file, args=(msg,))
\* is started; it is the next thread of the run.
StartSaver(sv, m) ==
    LET w == 1 + Cardinality({x \in Savers : sv[x].pc # "unborn"})
    IN  [sv EXCEPT ![w] = [pc |-> "read", msg |-> m, local |-> <<>>]]

\* lines 316-324: the write of += 1; the log line; the writer thread is
\* started; the call returns
append_message_write(p) ==
    /\ pc[p] = "ap_write"
    /\ msg_count' = CountAfterIncrement(msg_count, apMsg[p].role, apTmp[p])
    /\ saver' = StartSaver(saver, apMsg[p])
    /\ UNCHANGED file
    /\ pc' = [pc EXCEPT ![p] = retpc[p]]
    /\ apMsg' = [apMsg EXCEPT ![p] = NoMsg]
    /\ apTmp' = [apTmp EXCEPT ![p] = 0]
    /\ retpc' = [retpc EXCEPT ![p] = "idle"]
    /\ UNCHANGED <<messages, now, joinTarget, vLis, vSpk, vSrv, issued, vHist, client>>

\* _save_message_to_file, lines 327-334: the list the file holds, or [] when
\* the file does not exist or json.load raises JSONDecodeError; msg is appended
\* to that list
LoadedList(f) == IF f.state = "ok" THEN f.data ELSE <<>>

\* A faulty writer that adds its message twice.
save_read_twice(w) ==
    /\ saver[w].pc = "read"
    /\ saver' = [saver EXCEPT ![w].pc = "open",
                              ![w].local = Append(Append(LoadedList(file), saver[w].msg),
                                                  saver[w].msg)]
    /\ UNCHANGED <<vConv, pc, retpc, vAp, joinTarget, vLis, vSpk, vSrv, issued, vHist,
                   file, client>>

save_read(w) ==
    /\ saver[w].pc = "read"
    /\ saver' = [saver EXCEPT ![w].pc = "open",
                              ![w].local = Append(LoadedList(file), saver[w].msg)]
    /\ UNCHANGED <<vConv, pc, retpc, vAp, joinTarget, vLis, vSpk, vSrv, issued, vHist,
                   file, client>>

\* line 335: open(MESSAGES_FILE, "w") creates the file or cuts it to length 0
save_open(w) ==
    /\ saver[w].pc = "open"
    /\ file' = TornFile
    /\ saver' = [saver EXCEPT ![w].pc = "dump"]
    /\ UNCHANGED <<vConv, pc, retpc, vAp, joinTarget, vLis, vSpk, vSrv, issued, vHist,
                   client>>

\* line 336: json.dump(messages, f); the file is closed and the thread ends
save_dump(w) ==
    /\ saver[w].pc = "dump"
    /\ file' = JsonFile(saver[w].local)
    /\ saver' = [saver EXCEPT ![w] = [pc |-> "done", msg |-> NoMsg, local |-> <<>>]]
    /\ UNCHANGED <<vConv, pc, retpc, vAp, joinTarget, vLis, vSpk, vSrv, issued, vHist,
                   client>>

\* A faulty runtime in which the error of a writer thread ends the callers of
\* append_message too.
ErrorReachesCallers(pcs) ==
    [p \in Procs |-> IF p \in Appenders THEN "failed" ELSE pcs[p]]

\* line 324: the writer runs in a thread of its own, started with
\* Thread.start(); an error it raises ends that thread and no other
ThreadsAfterSaverError(pcs) == pcs

\* lines 330, 335, 336: open, read or write raises an OSError; nothing in
\* _save_message_to_file catches it and the writer thread ends with it
save_fail(w) ==
    /\ saver[w].pc \in {"read", "open", "dump"}
    /\ saver' = [saver EXCEPT ![w] = [pc |-> "failed", msg |-> NoMsg, local |-> <<>>]]
    /\ pc' = ThreadsAfterSaverError(pc)
    /\ UNCHANGED <<vConv, retpc, vAp, joinTarget, vLis, vSpk, vSrv, issued, vHist,
                   file, client>>

\* --------------------------------------------------- clients of the log
\* A client thread calls append_message(role, content).
ClientAppend(p) ==
    /\ p \in Appenders
    /\ pc[p] = "idle"
    /\ issued[p[2]] < MaxMsgs
    /\ \E c \in Contents : append_message_call(p, p[2], c, "idle")
    /\ UNCHANGED <<vConv, apTmp, joinTarget, vLis, vSpk, vSrv, vHist>>
    /\ UNCHANGED <<vFile, client>>

\* The clock that time.time() reads moves on.
Tick ==
    /\ now < MaxTime
    /\ now' = now + 1
    /\ UNCHANGED <<messages, msg_count, pc, retpc, vAp, joinTarget, vLis, vSpk, vSrv,
                   issued, vHist>>
    /\ UNCHANGED <<vFile, client>>

\* A reader calls get_last_n_messages(role, n).
ClientGet ==
    /\ \E role \in Roles \cup {NoRole}, n \in 0..MaxN :
          /\ getArg' = [called |-> TRUE, role |-> role, n |-> n]
          /\ getRet' = get_last_n_messages(messages, role, n)
    /\ resRet' = NoResult
    /\ UNCHANGED <<vConv, pc, retpc, vAp, joinTarget, vLis, vSpk, vSrv, issued, vHist>>
    /\ UNCHANGED <<vFile, client>>

\* ----------------------------------------------------------------- Speaker
\* A faulty lock that lets every caller in.
TtsLockIgnored == TRUE

\* `with self.tts_lock` lets a caller in when no thread holds the lock.
TtsLockFree == tts_lock = NoProc

\* A speak() that goes to the synthesis without setting the flag.
SpeakWithoutFlag(p) ==
    /\ pc[p] = "spk_begin"
    /\ TtsLockFree
    /\ tts_lock' = p
    /\ pc' = [pc EXCEPT ![p] = "spk_synth"]
    /\ UNCHANGED <<vConv, retpc, vAp, joinTarget, vLis, speaking_flag, cm_running, vSrv,
                   issued, vHist, vFile, client>>

\* speak(), lines 68-69: take the lock, GLOBAL_SPEAKING_FLAG.set()
SpeakBegin(p) ==
    /\ pc[p] = "spk_begin"
    /\ TtsLockFree
    /\ tts_lock' = p
    /\ speaking_flag' = TRUE
    /\ pc' = [pc EXCEPT ![p] = "spk_synth"]
    /\ UNCHANGED <<vConv, retpc, vAp, joinTarget, vLis, cm_running, vSrv, issued, vHist>>
    /\ UNCHANGED <<vFile, client>>

\* A faulty speak() that releases the lock and leaves the flag set.
SpeakFlagLeftSet(p) ==
    /\ pc[p] = "spk_synth"
    /\ tts_lock' = NoProc
    /\ pc' = [pc EXCEPT ![p] = retpc[p]]
    /\ retpc' = [retpc EXCEPT ![p] = "idle"]
    /\ UNCHANGED <<vConv, vAp, joinTarget, vLis, speaking_flag, cm_running, vSrv, issued,
                   vHist>>
    /\ UNCHANGED <<vFile, client>>

\* speak(), lines 70-74: the delay and the synthesis are over;
\* GLOBAL_SPEAKING_FLAG.clear(), the lock is released
SpeakEnd(p) ==
    /\ pc[p] = "spk_synth"
    /\ speaking_flag' = FALSE
    /\ tts_lock' = NoProc
    /\ pc' = [pc EXCEPT ![p] = retpc[p]]
    /\ retpc' = [retpc EXCEPT ![p] = "idle"]
    /\ UNCHANGED <<vConv, vAp, joinTarget, vLis, cm_running, vSrv, issued, vHist>>
    /\ UNCHANGED <<vFile, client>>

\* speak(), lines 71-72: say or runAndWait raises.  `with` releases the lock,
\* line 74 is not reached, and the error ends the calling thread: nothing in
\* say_hello, record_audio or poll_responses catches it.
SpeakFails(p) ==
    /\ pc[p] = "spk_synth"
    /\ tts_lock' = NoProc
    /\ pc' = [pc EXCEPT ![p] = "speak_error"]
    /\ retpc' = [retpc EXCEPT ![p] = "idle"]
    /\ UNCHANGED <<vConv, vAp, joinTarget, vLis, speaking_flag, cm_running, vSrv, issued,
                   vHist>>
    /\ UNCHANGED <<vFile, client>>

\* play_sound(), line 83: take the lock
PlayBegin(p) ==
    /\ pc[p] = "play_begin"
    /\ TtsLockFree
    /\ tts_lock' = p
    /\ pc' = [pc EXCEPT ![p] = "play_beep"]
    /\ UNCHANGED <<vConv, retpc, vAp, joinTarget, vLis, speaking_flag, cm_running, vSrv,
                   issued, vHist>>
    /\ UNCHANGED <<vFile, client>>

\* play_sound(), lines 84-96: the tone is over, the lock is released.  The
\* caller is record_audio, line 215; its lines 216-217 save the audio and
\* replace the recognizer, and the thread ends.
PlayEnd(p) ==
    /\ pc[p] = "play_beep"
    /\ tts_lock' = NoProc
    /\ pc' = [pc EXCEPT ![p] = "done"]
    /\ UNCHANGED <<vConv, retpc, vAp, joinTarget, vLis, speaking_flag, cm_running, vSrv,
                   issued, vHist>>
    /\ UNCHANGED <<vFile, client>>

\* poll_responses, lines 370-375: the loop test passes, a new response is
\* there and the response thread calls speak(text=response).
SpeakCall(p) ==
    /\ p \in Speakers
    /\ pc[p] = "idle"
    /\ cm_running
    /\ pc' = [pc EXCEPT ![p] = "spk_begin"]
    /\ UNCHANGED <<vConv, retpc, vAp, joinTarget, vLis, vSpk, vSrv, issued, vHist>>
    /\ UNCHANGED <<vFile, client>>

\* poll_responses, line 370: the loop test fails and the response thread ends.
PollExit(p) ==
    /\ p \in Speakers
    /\ pc[p] = "idle"
    /\ ~cm_running
    /\ pc' = [pc EXCEPT ![p] = "done"]
    /\ UNCHANGED <<vConv, retpc, vAp, joinTarget, vLis, vSpk, vSrv, issued, vHist>>
    /\ UNCHANGED <<vFile, client>>

\* ---------------------------------------------------------------- Listener
\* Python `needle in hay`.  The code tests substrings of characters; texts are
\* sequences of whole words here, and on the texts of Heard the two agree.
Contains(hay, needle) ==
    \E i \in 0..(Len(hay) - Len(needle)) : SubSeq(hay, i + 1, i + Len(needle)) = needle

\* is_valid_text, lines 252-265: what becomes of self.text
Classify(t) ==
    IF t # <<>> /\ t \notin INVALID_TERMS
    THEN IF \E cmd \in PAUSE_COMMANDS : Contains(t, cmd) THEN "pause"
         ELSE IF \E cmd \in EXIT_COMMANDS : Contains(cmd, t) THEN "exit"
         ELSE "content"
    ELSE "invalid"

\* record_audio, lines 210-211: is the final text appended
FinalAppended(t) == t # <<>> /\ t \notin INVALID_TERMS

\* Where a capture thread is when it has ended: by returning, with the error
\* audio.open or the recognizer raised (record_audio catches nothing), or
\* with the SystemExit of App.shutdown.
Ended == {"done", "open_error", "chunk_error", "speak_error", "exited"}

\* threading.Thread.is_alive() of capture thread i
Alive(i) == pc[<<"cap", i>>] \notin {"unborn"} \cup Ended
AliveCaps == {i \in 1..MaxThreads : Alive(i)}

\* The appends that threads between line 196 and line 201 will make when
\* self.text is u.
Pending(u, ts) ==
    Cardinality({o \in ts : pc[o] = "append_user"})
        + IF Classify(u) = "content" THEN Cardinality({o \in ts : pc[o] = "valid"}) ELSE 0

\* What the recognizer may return to capture thread t: a text that will be
\* appended only while the bound on user messages allows that append after
\* the pending ones.
CanHear(t) ==
    {u \in Heard : Classify(u) = "content" =>
                       issued["user"] + Pending(u, Caps \ {t}) < MaxMsgs}
CanFlush ==
    {u \in Trailing : FinalAppended(u) => issued["user"] + Pending(text, Caps) < MaxMsgs}

\* The stream capture thread o opened at line 181 is not closed: the thread
\* is between line 188 and line 206, or it ended there.
StreamOpen(o) ==
    \/ pc[o] \in {"loop", "gate", "read", "valid", "append_user", "after_append", "final",
                  "spk_begin", "spk_synth", "exit_tail", "exited", "chunk_error",
                  "speak_error"}
    \/ pc[o] \in {"ap_insert", "ap_read", "ap_write"} /\ retpc[o] = "after_append"

\* Capture thread o has left the recognizer as a session finds it: o has not
\* fed it yet, or has replaced it (line 217).
RecognizerReset(o) == pc[o] \in {"unborn", "rec_entry", "open_error", "done"}

\* toggle_recording, line 155
ToggleCheck(p) ==
    /\ pc[p] = "tg_check"
    /\ pc' = [pc EXCEPT ![p] = IF ~recording THEN "tg_start" ELSE "tg_pause"]
    /\ UNCHANGED <<vConv, retpc, vAp, joinTarget, vLis, vSpk, vSrv, issued, vHist>>
    /\ UNCHANGED <<vFile, client>>

\* start_recording, lines 164-166
StartRecording(p) ==
    /\ pc[p] = "tg_start"
    /\ recording' = TRUE
    /\ pc' = [pc EXCEPT ![p] = "tg_spawn"]
    /\ UNCHANGED <<vConv, retpc, vAp, joinTarget, running, recording_thread, text,
                   silence_expired, vSpk, vSrv, issued, vHist>>
    /\ UNCHANGED <<vFile, client>>

\* start_recording, lines 167-168: a new thread runs record_audio
SpawnThread(p) ==
    /\ pc[p] = "tg_spawn"
    /\ launches < MaxThreads
    /\ recording_thread' = launches + 1
    /\ launches' = launches + 1
    /\ pc' = [pc EXCEPT ![p] = retpc[p], ![<<"cap", launches + 1>>] = "rec_entry"]
    /\ retpc' = [retpc EXCEPT ![p] = "idle"]
    /\ UNCHANGED <<vConv, vAp, joinTarget, recording, running, text, silence_expired,
                   vSpk, vSrv, issued, epoch, baseLen, chunk_hot, timed_out>>
    /\ UNCHANGED <<vFile, client>>

\* pause_recording, lines 174-176.  With recording set and no thread object
\* yet, None.is_alive() raises and ends the calling thread; a lock held in a
\* with block is released.
PauseRecording(p) ==
    /\ pc[p] = "tg_pause"
    /\ IF recording /\ recording_thread = 0
       THEN /\ pc' = [pc EXCEPT ![p] = "done"]
            /\ listening_lock' = IF listening_lock = p THEN NoProc ELSE listening_lock
            /\ UNCHANGED <<recording, joinTarget, retpc>>
       ELSE IF recording /\ Alive(recording_thread)
       THEN /\ recording' = FALSE
            /\ joinTarget' = [joinTarget EXCEPT ![p] = recording_thread]
            /\ pc' = [pc EXCEPT ![p] = "tg_join"]
            /\ UNCHANGED <<listening_lock, retpc>>
       ELSE /\ pc' = [pc EXCEPT ![p] = retpc[p]]
            /\ retpc' = [retpc EXCEPT ![p] = "idle"]
            /\ UNCHANGED <<recording, joinTarget, listening_lock>>
    /\ UNCHANGED <<vConv, vAp, running, recording_thread, text, silence_expired, vSpk,
                   listen_start_user_count, is_listening, server_running, issued,
                   vHist>>
    /\ UNCHANGED <<vFile, client>>

\* pause_recording, line 176: recording_thread.join() returns
JoinReturns(p) ==
    /\ pc[p] = "tg_join"
    /\ ~Alive(joinTarget[p])
    /\ pc' = [pc EXCEPT ![p] = retpc[p]]
    /\ retpc' = [retpc EXCEPT ![p] = "idle"]
    /\ joinTarget' = [joinTarget EXCEPT ![p] = 0]
    /\ UNCHANGED <<vConv, vAp, vLis, vSpk, vSrv, issued, vHist>>
    /\ UNCHANGED <<vFile, client>>

\* record_audio, lines 179-190: return at once, or open the stream, start the
\* silence timer and say hello
RecordEntry(t) ==
    /\ pc[t] = "rec_entry"
    /\ IF ~running \/ ~recording
       THEN /\ pc' = [pc EXCEPT ![t] = "done"]
            /\ UNCHANGED <<retpc, silence_expired>>
       ELSE /\ silence_expired' = FALSE
            /\ pc' = [pc EXCEPT ![t] = "spk_begin"]
            /\ retpc' = [retpc EXCEPT ![t] = "loop"]
    /\ UNCHANGED <<vConv, vAp, joinTarget, recording, running, recording_thread, text,
                   vSpk, vSrv, issued, vHist>>
    /\ UNCHANGED <<vFile, client>>

\* record_audio, lines 181-187: self.audio.open raises; the error ends the
\* thread
RecordOpenFails(t) ==
    /\ pc[t] = "rec_entry"
    /\ running /\ recording
    /\ pc' = [pc EXCEPT ![t] = "open_error"]
    /\ UNCHANGED <<vConv, retpc, vAp, joinTarget, vLis, vSpk, vSrv, issued, vHist>>
    /\ UNCHANGED <<vFile, client>>

\* A faulty loop test that looks at the running flag alone.
LoopIgnoresRecording(t) ==
    /\ pc[t] = "loop"
    /\ pc' = [pc EXCEPT ![t] = IF running THEN "gate" ELSE "final"]
    /\ UNCHANGED <<vConv, retpc, vAp, joinTarget, vLis, vSpk, vSrv, issued, vHist>>
    /\ UNCHANGED <<vFile, client>>

\* line 192: while self.running and self.recording
LoopCheck(t) ==
    /\ pc[t] = "loop"
    /\ pc' = [pc EXCEPT ![t] = IF running /\ recording THEN "gate" ELSE "final"]
    /\ UNCHANGED <<vConv, retpc, vAp, joinTarget, vLis, vSpk, vSrv, issued, vHist>>
    /\ UNCHANGED <<vFile, client>>

\* hold_while_speaking, lines 230-232: leaves when the flag is seen clear
GatePass(t) ==
    /\ pc[t] = "gate"
    /\ ~speaking_flag
    /\ pc' = [pc EXCEPT ![t] = "read"]
    /\ UNCHANGED <<vConv, retpc, vAp, joinTarget, vLis, vSpk, vSrv, issued, vHist>>
    /\ UNCHANGED <<vFile, client>>

\* lines 194-199: one chunk is read and fed to the recognizer; self.text is
\* its final fragment, or empty
ReadChunk(t) ==
    /\ pc[t] = "read"
    /\ \E u \in CanHear(t) : text' = u
    /\ chunk_hot' = [chunk_hot EXCEPT ![t] = speaking_flag]
    /\ pc' = [pc EXCEPT ![t] = "valid"]
    /\ UNCHANGED <<vConv, retpc, vAp, joinTarget, recording, running, recording_thread,
                   silence_expired, vSpk, vSrv, issued, epoch, launches, baseLen,
                   timed_out>>
    /\ UNCHANGED <<vFile, client>>

\* lines 194-196: stream.read, AcceptWaveform or Result raises; the error
\* ends the thread
RecognizerFails(t) ==
    /\ pc[t] = "read"
    /\ pc' = [pc EXCEPT ![t] = "chunk_error"]
    /\ UNCHANGED <<vConv, retpc, vAp, joinTarget, vLis, vSpk, vSrv, issued, vHist>>
    /\ UNCHANGED <<vFile, client>>

\* self.text after its last use.  Only a thread at line 200 or 201 reads
\* self.text, and a thread gets there by writing it (line 196 or 198): when
\* no other thread is there its value is never read again, and the model
\* forgets it.
TextAfterUse(t) ==
    IF \E o \in Caps \ {t} : pc[o] \in {"valid", "append_user"} THEN text ELSE <<>>

\* Another capture thread is about to write self.text (line 196 or 198).
TextWriterNear(t) == \E o \in Caps \ {t} : pc[o] = "read"

\* line 200 with is_valid_text, lines 252-269.  Line 201 reads self.text
\* again: it is a step of its own when another thread can write self.text in
\* between, and part of this step otherwise.
IsValidText(t) ==
    /\ pc[t] = "valid"
    /\ chunk_hot' = [chunk_hot EXCEPT ![t] = FALSE]
    /\ \/ /\ Classify(text) = "pause"
          /\ recording' = FALSE
          /\ text' = TextAfterUse(t)
          /\ pc' = [pc EXCEPT ![t] = "loop"]
          /\ UNCHANGED <<running, retpc, apMsg, issued, timed_out>>
       \/ /\ Classify(text) = "exit"
          /\ running' = FALSE
          /\ text' = TextAfterUse(t)
          /\ pc' = [pc EXCEPT ![t] = "spk_begin"]
          /\ retpc' = [retpc EXCEPT ![t] = "exit_tail"]
          /\ UNCHANGED <<recording, apMsg, issued, timed_out>>
       \/ /\ Classify(text) = "content"
          /\ TextWriterNear(t)
          /\ pc' = [pc EXCEPT ![t] = "append_user"]
          /\ UNCHANGED <<recording, running, text, retpc, apMsg, issued, timed_out>>
       \/ /\ Classify(text) = "content"
          /\ ~TextWriterNear(t)
          /\ issued["user"] < MaxMsgs
          /\ append_message_call(t, "user", text, "after_append")
          /\ text' = TextAfterUse(t)
          /\ UNCHANGED <<recording, running, timed_out>>
       \/ /\ Classify(text) = "invalid"
          /\ recording' = IF silence_expired THEN FALSE ELSE recording
          /\ timed_out' = (timed_out \/ silence_expired)
          /\ text' = TextAfterUse(t)
          /\ pc' = [pc EXCEPT ![t] = "loop"]
          /\ UNCHANGED <<running, retpc, apMsg, issued>>
    /\ UNCHANGED <<vConv, apTmp, joinTarget, recording_thread, silence_expired, vSpk,
                   vSrv, epoch, launches, baseLen>>
    /\ UNCHANGED <<vFile, client>>

\* line 201: append_message(role="user", content=self.text), with self.text
\* as it is now
AppendUser(t) ==
    /\ pc[t] = "append_user"
    /\ issued["user"] < MaxMsgs
    /\ append_message_call(t, "user", text, "after_append")
    /\ text' = TextAfterUse(t)
    /\ UNCHANGED <<vConv, apTmp, joinTarget, recording, running, recording_thread,
                   silence_expired, vSpk, vSrv, vHist>>
    /\ UNCHANGED <<vFile, client>>

\* line 202: self.last_speech_time = time.time()
ResetTimer(t) ==
    /\ pc[t] = "after_append"
    /\ silence_expired' = FALSE
    /\ pc' = [pc EXCEPT ![t] = "loop"]
    /\ UNCHANGED <<vConv, retpc, vAp, joinTarget, recording, running, recording_thread,
                   text, vSpk, vSrv, issued, vHist>>
    /\ UNCHANGED <<vFile, client>>

\* App.shutdown, lines 475-481, after its speak(): the flags are cleared and
\* sys.exit(0) ends the calling thread: a capture thread inside
\* is_valid_text, or the main thread.
ExitTail(t) ==
    /\ pc[t] = "exit_tail"
    /\ running' = FALSE
    /\ cm_running' = FALSE
    /\ pc' = [pc EXCEPT ![t] = "exited"]
    /\ UNCHANGED <<vConv, retpc, vAp, joinTarget, recording, recording_thread, text,
                   silence_expired, tts_lock, speaking_flag, vSrv, issued, vHist>>
    /\ UNCHANGED <<vFile, client>>

\* start_gui, lines 464-467: KeyboardInterrupt ends the main loop and the main
\* thread calls App.shutdown, which speaks first (line 474).
Interrupt(p) ==
    /\ p \in Mains
    /\ pc[p] = "idle"
    /\ pc' = [pc EXCEPT ![p] = "spk_begin"]
    /\ retpc' = [retpc EXCEPT ![p] = "exit_tail"]
    /\ UNCHANGED <<vConv, vAp, joinTarget, vLis, vSpk, vSrv, issued, vHist>>
    /\ UNCHANGED <<vFile, client>>

\* lines 205-215: the stream is closed; FinalResult() is appended unless it is
\* empty or a filler; then play_sound(status="STOP")
FinalFlush(t) ==
    /\ pc[t] = "final"
    /\ \E u \in CanFlush :
          IF FinalAppended(u)
          THEN append_message_call(t, "user", u, "play_begin")
          ELSE /\ pc' = [pc EXCEPT ![t] = "play_begin"]
               /\ UNCHANGED <<retpc, apMsg, issued>>
    /\ UNCHANGED <<vConv, apTmp, joinTarget, vLis, vSpk, vSrv, vHist>>
    /\ UNCHANGED <<vFile, client>>

\* time passes: more than self.timeout since last_speech_time
TimePasses ==
    /\ ~silence_expired
    /\ silence_expired' = TRUE
    /\ UNCHANGED <<vConv, pc, retpc, vAp, joinTarget, recording, running,
                   recording_thread, text, vSpk, vSrv, issued, vHist>>
    /\ UNCHANGED <<vFile, client>>

\* --------------------------------------------------------------- VoskServer
\* The recording state machine as the spec names it: Recording while the flag
\* is set, Draining while a capture thread has yet to finish its final flush.
Flushing(i) ==
    LET t == <<"cap", i>>
    IN  \/ pc[t] \in {"loop", "gate", "read", "valid", "append_user", "after_append",
                      "final"}
        \/ pc[t] \in {"spk_begin", "spk_synth"} /\ retpc[t] = "loop"
        \/ pc[t] \in {"ap_insert", "ap_read", "ap_write"}
RSMState ==
    IF recording THEN "Recording"
    ELSE IF \E i \in 1..MaxThreads : Flushing(i) THEN "Draining"
    ELSE "Idle"

\* A check that does not look at the recording flag.
StartIgnoresRecording == ~is_listening

\* trigger_listen, line 50: the check of a start
StartAccepted == ~is_listening /\ ~recording

\* listen(), line 85, and trigger_listen, lines 49-50: the thread started for
\* the request takes the lock; a rejected call leaves at once.  Requests are
\* numbered in the order in which they get the lock.
TriggerCheck(p) ==
    /\ p \in Starts
    /\ pc[p] = "idle"
    /\ \A q \in Starts : q[2] < p[2] => pc[q] # "idle"
    /\ listening_lock = NoProc
    /\ IF StartAccepted
       THEN /\ listening_lock' = p
            /\ pc' = [pc EXCEPT ![p] = "tl_base"]
       ELSE /\ pc' = [pc EXCEPT ![p] = "done"]
            /\ UNCHANGED listening_lock
    /\ UNCHANGED <<vConv, retpc, vAp, joinTarget, vLis, vSpk, listen_start_user_count,
                   is_listening, server_running, issued, vHist>>
    /\ UNCHANGED <<vFile, client>>

\* A start that keeps a baseline already recorded.
TriggerKeepsBaseline(p) ==
    /\ pc[p] = "tl_base"
    /\ listen_start_user_count' =
           IF listen_start_user_count = NoCount THEN msg_count["user"]
           ELSE listen_start_user_count
    /\ is_listening' = TRUE
    /\ epoch' = epoch + 1
    /\ timed_out' = FALSE
    /\ baseLen' = Len(messages["user"])
    /\ pc' = [pc EXCEPT ![p] = "tg_check"]
    /\ retpc' = [retpc EXCEPT ![p] = "tl_end"]
    /\ UNCHANGED <<vConv, vAp, joinTarget, vLis, vSpk, listening_lock, server_running, issued,
                   launches, chunk_hot, vFile, client>>

\* trigger_listen, lines 51-54: the baseline, is_listening, toggle_recording()
TriggerBase(p) ==
    /\ pc[p] = "tl_base"
    /\ listen_start_user_count' = msg_count["user"]
    /\ is_listening' = TRUE
    /\ epoch' = epoch + 1
    /\ timed_out' = FALSE
    /\ baseLen' = Len(messages["user"])
    /\ pc' = [pc EXCEPT ![p] = "tg_check"]
    /\ retpc' = [retpc EXCEPT ![p] = "tl_end"]
    /\ UNCHANGED <<vConv, vAp, joinTarget, vLis, vSpk, listening_lock, server_running, issued,
                   launches, chunk_hot>>
    /\ UNCHANGED <<vFile, client>>

\* trigger_listen, lines 55-56: is_listening is cleared, the lock released
TriggerEnd(p) ==
    /\ pc[p] = "tl_end"
    /\ is_listening' = FALSE
    /\ listening_lock' = NoProc
    /\ pc' = [pc EXCEPT ![p] = "done"]
    /\ UNCHANGED <<vConv, retpc, vAp, joinTarget, vLis, vSpk, listen_start_user_count,
                   server_running, issued, vHist>>
    /\ UNCHANGED <<vFile, client>>

\* A faulty hold that also clears the baseline.
HoldClearsBaseline(p) ==
    /\ p \in Holds
    /\ pc[p] = "idle"
    /\ listen_start_user_count' = NoCount
    /\ pc' = [pc EXCEPT ![p] = IF recording THEN "tg_check" ELSE "done"]
    /\ retpc' = [retpc EXCEPT ![p] = IF recording THEN "done" ELSE @]
    /\ UNCHANGED <<vConv, vAp, joinTarget, vLis, vSpk, is_listening, listening_lock,
                   server_running, issued, vHist, vFile, client>>

\* hold() and hold_listen, line 60
HoldRequest(p) ==
    /\ p \in Holds
    /\ pc[p] = "idle"
    /\ IF recording
       THEN /\ pc' = [pc EXCEPT ![p] = "tg_check"]
            /\ retpc' = [retpc EXCEPT ![p] = "done"]
       ELSE /\ pc' = [pc EXCEPT ![p] = "done"]
            /\ UNCHANGED retpc
    /\ UNCHANGED <<vConv, vAp, joinTarget, vLis, vSpk, vSrv, issued, vHist>>
    /\ UNCHANGED <<vFile, client>>

\* stop(), lines 106-107: server.running = False
Stop(p) ==
    /\ p \in Stoppers
    /\ pc[p] = "idle"
    /\ server_running' = FALSE
    /\ pc' = [pc EXCEPT ![p] = "done"]
    /\ UNCHANGED <<vConv, retpc, vAp, joinTarget, vLis, vSpk, listen_start_user_count,
                   is_listening, listening_lock, issued, vHist>>
    /\ UNCHANGED <<vFile, client>>

\* get_session_user_messages, line 66: self.listen_start_user_count or 0
OrZero(c) == IF c = NoCount \/ c = 0 THEN 0 ELSE c

\* get_session_user_messages, lines 66-75
get_session_user_messages ==
    LET start == OrZero(listen_start_user_count)
        curr  == msg_count["user"]
        n     == curr - start
    IN  IF n > 0 THEN get_last_n_messages(messages, "user", n) ELSE <<>>

\* result(), lines 91-96: the answer to GET /result
ResultValue == IF ~recording THEN Ready(get_session_user_messages) ELSE NotReady

\* A faulty result() that moves the baseline to the messages it has returned.
ResultConsumesBaseline(p) ==
    /\ p \in Readers
    /\ pc[p] = "idle"
    /\ resRet' = ResultValue
    /\ getArg' = NoGet
    /\ getRet' = <<>>
    /\ listen_start_user_count' = IF ~recording THEN msg_count["user"]
                                  ELSE listen_start_user_count
    /\ UNCHANGED <<vConv, pc, retpc, vAp, joinTarget, vLis, vSpk, is_listening,
                   listening_lock, server_running, issued, vHist>>
    /\ UNCHANGED <<vFile, client>>

\* result(), lines 91-96
Result(p) ==
    /\ p \in Readers
    /\ pc[p] = "idle"
    /\ resRet' = ResultValue
    /\ getArg' = NoGet
    /\ getRet' = <<>>
    /\ UNCHANGED <<vConv, pc, retpc, vAp, joinTarget, vLis, vSpk, vSrv, issued, vHist>>
    /\ UNCHANGED <<vFile, client>>

\* The history of a call lasts one step: any other step forgets it.
Forget == getArg' = NoGet /\ getRet' = <<>> /\ resRet' = NoResult

\* ---------------------------------------------------------- specification
Init ==
    /\ messages = [r \in Roles |-> <<>>]
    /\ msg_count = [r \in Roles |-> 0]
    /\ now = 0
    /\ pc = [p \in Procs |-> IF p \in Caps THEN "unborn" ELSE "idle"]
    /\ retpc = [p \in Procs |-> "idle"]
    /\ apMsg = [p \in Procs |-> NoMsg]
    /\ apTmp = [p \in Procs |-> 0]
    /\ joinTarget = [p \in Procs |-> 0]
    /\ recording = FALSE
    /\ running = TRUE
    /\ recording_thread = 0
    /\ text = <<>>
    /\ silence_expired = FALSE
    /\ tts_lock = NoProc
    /\ speaking_flag = FALSE
    /\ cm_running = TRUE
    /\ listen_start_user_count = NoCount
    /\ is_listening = FALSE
    /\ listening_lock = NoProc
    /\ server_running = TRUE
    /\ issued = [r \in Roles |-> 0]
    /\ getArg = NoGet
    /\ getRet = <<>>
    /\ resRet = NoResult
    /\ epoch = 0
    /\ launches = 0
    /\ baseLen = 0
    /\ chunk_hot = [p \in Caps |-> FALSE]
    /\ timed_out = FALSE
    /\ file = NoFile
    /\ saver = [w \in Savers |-> NoSaver]
    /\ client = NoClient

\* The fragments the recognizer returns to is_valid_text: up to MaxWords words.
Words == {"hold", "it", "good", "bye", "exit", "the", "light"}
Fragments == UNION {[1..n -> Words] : n \in 0..MaxWords}

\* is_valid_text on its own: one session is Recording and its capture thread
\* is at line 200 with a fragment in self.text.
InitClassify ==
    /\ messages = [r \in Roles |-> <<>>]
    /\ msg_count = [r \in Roles |-> 0]
    /\ now = 0
    /\ pc = [p \in Procs |-> IF p = <<"cap", 1>> THEN "valid"
                        ELSE IF p \in Caps THEN "unborn" ELSE "idle"]
    /\ retpc = [p \in Procs |-> "idle"]
    /\ apMsg = [p \in Procs |-> NoMsg]
    /\ apTmp = [p \in Procs |-> 0]
    /\ joinTarget = [p \in Procs |-> 0]
    /\ recording = TRUE
    /\ running = TRUE
    /\ recording_thread = 1
    /\ text \in Fragments
    /\ silence_expired = FALSE
    /\ tts_lock = NoProc
    /\ speaking_flag = FALSE
    /\ cm_running = TRUE
    /\ listen_start_user_count = 0
    /\ is_listening = FALSE
    /\ listening_lock = NoProc
    /\ server_running = TRUE
    /\ issued = [r \in Roles |-> 0]
    /\ getArg = NoGet
    /\ getRet = <<>>
    /\ resRet = NoResult
    /\ epoch = 1
    /\ launches = 1
    /\ baseLen = 0
    /\ chunk_hot = [p \in Caps |-> FALSE]
    /\ timed_out = FALSE
    /\ file = NoFile
    /\ saver = [w \in Savers |-> NoSaver]
    /\ client = NoClient

NextClassify ==
    (\/ \E t \in Caps : IsValidText(t)
     \/ \E t \in Caps : append_message_insert(t)
     \/ \E t \in Caps : append_message_read(t)
     \/ \E t \in Caps : append_message_write(t)
     \/ \E t \in Caps : ResetTimer(t)
     \/ \E t \in Caps : LoopCheck(t)
     \/ \E t \in Caps : SpeakBegin(t)
     \/ \E t \in Caps : SpeakEnd(t)
     \/ \E t \in Caps : ExitTail(t)) /\ Forget

SpecClassify == InitClassify /\ [][NextClassify]_vars

\* The conversation log and its clients.
NextLog ==
    \/ /\ \/ \E p \in Appenders : ClientAppend(p)
          \/ \E p \in Appenders : append_message_insert(p)
          \/ \E p \in Appenders : append_message_read(p)
          \/ \E p \in Appenders : append_message_write(p)
          \/ Tick
       /\ Forget
    \/ ClientGet

SpecLog == Init /\ [][NextLog]_vars

\* The conversation log with its transcript file.
NextPersist ==
    (\/ \E p \in Appenders : ClientAppend(p)
     \/ \E p \in Appenders : append_message_insert(p)
     \/ \E p \in Appenders : append_message_read(p)
     \/ \E p \in Appenders : append_message_write(p)
     \/ \E w \in Savers : save_read(w)
     \/ \E w \in Savers : save_open(w)
     \/ \E w \in Savers : save_dump(w)
     \/ \E w \in Savers : save_fail(w)) /\ Forget

SpecPersist == Init /\ [][NextPersist]_vars

\* The capture threads.
NextOneCapture ==
    \/ \E t \in Caps : RecordEntry(t)
    \/ \E t \in Caps : LoopCheck(t)
    \/ \E t \in Caps : GatePass(t)
    \/ \E t \in Caps : ReadChunk(t)
    \/ \E t \in Caps : IsValidText(t)
    \/ \E t \in Caps : ResetTimer(t)
    \/ \E t \in Caps : ExitTail(t)
    \/ \E t \in Caps : FinalFlush(t)
    \/ \E t \in Caps : SpeakBegin(t)
    \/ \E t \in Caps : SpeakEnd(t)
    \/ \E t \in Caps : PlayBegin(t)
    \/ \E t \in Caps : PlayEnd(t)
    \/ \E t \in Caps : append_message_insert(t)
    \/ \E t \in Caps : append_message_read(t)
    \/ \E t \in Caps : append_message_write(t)

\* The capture threads where two of them can be alive: line 201 is a step of
\* its own when another thread is about to write self.text.
NextCapture ==
    \/ NextOneCapture
    \/ \E t \in Caps : AppendUser(t)

\* The handler of /listen.
NextStart ==
    \/ \E p \in Starts : TriggerCheck(p)
    \/ \E p \in Starts : TriggerBase(p)
    \/ \E p \in Starts : TriggerEnd(p)
    \/ \E p \in Starts : ToggleCheck(p)
    \/ \E p \in Starts : StartRecording(p)
    \/ \E p \in Starts : SpawnThread(p)

\* The handler of /hold, and the pause a toggle runs when it finds the flag set.
NextHold ==
    \/ \E p \in Holds : HoldRequest(p)
    \/ \E p \in Holds : ToggleCheck(p)
    \/ \E p \in Holds : StartRecording(p)
    \/ \E p \in Holds : SpawnThread(p)
    \/ \E p \in Starts \cup Holds : PauseRecording(p)
    \/ \E p \in Starts \cup Holds : JoinReturns(p)

\* The response thread.
NextSpeaker ==
    \/ \E p \in Speakers : SpeakCall(p)
    \/ \E p \in Speakers : SpeakBegin(p)
    \/ \E p \in Speakers : SpeakEnd(p)
    \/ \E p \in Speakers : PollExit(p)

\* The remote control service: /listen, /hold and /result with the capture
\* threads they start.
Next ==
    \/ (NextStart \/ NextHold \/ NextCapture) /\ Forget
    \/ \E p \in Readers : Result(p)

Spec == Init /\ [][Next]_vars

\* Sessions started by /listen, with a /stop request.
NextStop == (NextStart \/ NextCapture \/ \E p \in Stoppers : Stop(p)) /\ Forget

SpecStop == Init /\ [][NextStop]_vars

\* Sessions started by /listen that the silence timeout can end, with /result.
NextTimeout ==
    \/ (NextStart \/ NextCapture \/ TimePasses) /\ Forget
    \/ \E p \in Readers : Result(p)

SpecTimeout == Init /\ [][NextTimeout]_vars

\* Sessions started by /listen in which the audio device or the recognizer
\* can fail.
NextFault ==
    (\/ NextStart
     \/ NextCapture
     \/ \E t \in Caps : RecordOpenFails(t)
     \/ \E t \in Caps : RecognizerFails(t)) /\ Forget

SpecFault == Init /\ [][NextFault]_vars

\* Every operation of the remote control service, with the silence timeout,
\* for a client that sends one /listen, one /hold and one /stop.
FirstStart == {<<"start", 1>>}

NextService ==
    \/ (\/ \E p \in FirstStart : TriggerCheck(p)
        \/ \E p \in FirstStart : TriggerBase(p)
        \/ \E p \in FirstStart : TriggerEnd(p)
        \/ \E p \in FirstStart : ToggleCheck(p)
        \/ \E p \in FirstStart : StartRecording(p)
        \/ \E p \in FirstStart : SpawnThread(p)
        \/ NextHold
        \/ NextCapture
        \/ TimePasses
        \/ \E p \in Stoppers : Stop(p)) /\ Forget
    \/ \E p \in Readers : Result(p)

SpecService == Init /\ [][NextService]_vars

\* Turn-taking: sessions started by /listen, with the response thread speaking.
NextTurn == (NextStart \/ NextCapture \/ NextSpeaker) /\ Forget

SpecTurn == Init /\ [][NextTurn]_vars

\* Shutdown from the main thread, with one session and the response thread.
NextCancel ==
    (\/ \E p \in FirstStart : TriggerCheck(p)
     \/ \E p \in FirstStart : TriggerBase(p)
     \/ \E p \in FirstStart : TriggerEnd(p)
     \/ \E p \in FirstStart : ToggleCheck(p)
     \/ \E p \in FirstStart : StartRecording(p)
     \/ \E p \in FirstStart : SpawnThread(p)
     \/ NextOneCapture
     \/ NextSpeaker
     \/ \E p \in Mains : Interrupt(p)
     \/ \E p \in Mains : SpeakBegin(p)
     \/ \E p \in Mains : SpeakEnd(p)
     \/ \E p \in Mains : ExitTail(p)) /\ Forget

SpecCancel == Init /\ [][NextCancel]_vars

\* ------------------------------------------------- the remote control service
\* The user messages appended since the last baseline was recorded.
SessionDelta == SubSeq(messages["user"], baseLen + 1, Len(messages["user"]))

\* No start or hold is being handled and every capture thread has ended.
Quiet ==
    /\ \A p \in Starts \cup Holds : pc[p] \in {"idle", "done"}
    /\ AliveCaps = {}

\* C1: result() called when the state machine is Idle again after an accepted
\* start returns exactly the user messages appended since the baseline of the
\* last accepted start, in append order.
C1_SessionDelta ==
    resRet.called /\ epoch >= 1 /\ RSMState = "Idle" /\ Quiet =>
        resRet.ready /\ resRet.msgs = SessionDelta

\* C2: result() returns a list when the state machine is Idle, and "not
\* ready" when it is Recording or Draining.
C2_ResultOnlyWhenIdle == resRet.called => (resRet.ready <=> RSMState = "Idle")

\* C3: a start records a baseline only when the state machine is Idle, and
\* launches a capture thread only when no earlier capture thread has yet to
\* finish its final flush.
C3_NoStartWhileBusy ==
    [][/\ epoch' > epoch => RSMState = "Idle"
       /\ \A p \in Starts :
             pc[p] = "tg_spawn" /\ pc'[p] # "tg_spawn" =>
                 ~ \E i \in 1..MaxThreads : Flushing(i)]_vars

\* C4: when two concurrent starts have both returned while the capture thread
\* of the first is still alive, and no hold was requested, one baseline has
\* been recorded and one capture thread launched.
C4_OneBaselineOneLaunch ==
    /\ \A p \in Starts : pc[p] = "done"
    /\ \A p \in Holds : pc[p] = "idle"
    /\ Alive(1)
    => epoch = 1 /\ launches = 1

\* ------------------------------------------------------------- turn-taking
\* C5: no chunk that was read while GLOBAL_SPEAKING_FLAG was set is fed to the
\* recognizer and handed to is_valid_text.
C5_NoChunkWhileSpeaking == \A t \in Caps : ~chunk_hot[t]

\* Thread p is inside the body of speak() or play_sound().
InBody(p) == pc[p] \in {"spk_synth", "play_beep"}

\* C6: at most one thread is inside the body of speak() or play_sound(), and
\* it is the holder of the lock; every other caller waits before the body.
C6_OneSpeakerAtATime ==
    \A p, q \in Procs : InBody(p) =>
        /\ tts_lock = p
        /\ InBody(q) => q = p

\* The response thread is speaking while a capture thread waits to play its
\* STOP tone.
C6_Witness ==
    /\ \E p \in Speakers : pc[p] = "spk_synth"
    /\ \E t \in Caps : pc[t] = "play_begin"

\* ------------------------------------------------------ the conversation log
\* No append_message call of a client is in progress.
AppendsReturned == \A p \in Appenders : pc[p] = "idle"

\* C7: once every append has returned, the counter of each role equals the
\* number of messages appended with that role.
C7_CountEqualsAppends ==
    AppendsReturned =>
        \A r \in Roles : /\ msg_count[r] = issued[r]
                         /\ msg_count[r] = Len(messages[r])

\* Both roles have had appends, the user role as many as the bound allows,
\* and all have returned.
C7_Witness ==
    /\ AppendsReturned
    /\ issued["user"] = MaxMsgs
    /\ issued["assistant"] >= 1
    /\ msg_count["user"] = MaxMsgs

\* C8: in every reachable state the counter of each role equals the length of
\* the list of that role.
C8_CountIsLength == \A r \in Roles : msg_count[r] = Len(messages[r])

\* C9: every step leaves the old list of each role a prefix of the new one.
C9_AppendOnly == [][\A r \in Roles : IsPrefix(messages[r], messages'[r])]_vars

\* A read without a role, which sorts, was made on a log that holds messages
\* of both roles.
C9_Witness ==
    /\ getArg.called
    /\ getArg.role = NoRole
    /\ Len(messages["user"]) = MaxMsgs
    /\ Len(messages["assistant"]) >= 1

\* C10: get_last_n(role, n) with n >= 0 returns at most n messages, the tail of
\* the list of that role in order, min(n, length) of them, with the newest
\* message last when n >= 1.
C10_LastN ==
    getArg.called /\ getArg.role # NoRole =>
        LET s == messages[getArg.role]
            k == Len(getRet)
        IN  /\ k <= getArg.n
            /\ k = Min(getArg.n, Len(s))
            /\ getRet = SubSeq(s, Len(s) - k + 1, Len(s))
            /\ getArg.n >= 1 /\ s # <<>> => getRet[k] = s[Len(s)]

\* ------------------------------------------------------ the transcript file
\* The messages of one role in a list, in the order of the list.
OfRole(ms, r) == SelectSeq(ms, LAMBDA m : m.role = r)

\* Every writer thread that was started has written its file and ended.
SaversFinished ==
    /\ \A w \in Savers : saver[w].pc \in {"unborn", "done"}
    /\ \E w \in Savers : saver[w].pc = "done"

\* C11: once every append has returned and every writer has finished, the
\* list reloaded from the file holds, role by role, the in-memory sequence.
C11_RoundTrip ==
    AppendsReturned /\ SaversFinished =>
        \A r \in Roles : OfRole(LoadedList(file), r) = messages[r]

\* Caller p of append_message is inside a call.
Appending(p) == pc[p] \in {"ap_insert", "ap_read", "ap_write"}

\* C12: whatever the writer threads do, a caller of append_message is never
\* ended or blocked: inside a call its next step is enabled, and once the call
\* has returned every message it appended is in the list and counted.
C12_AppendUnaffected ==
    \A p \in Appenders :
        /\ pc[p] = "idle" \/ Appending(p)
        /\ Appending(p) =>
              ENABLED (\/ append_message_insert(p)
                       \/ append_message_read(p)
                       \/ append_message_write(p))
        /\ pc[p] = "idle" =>
              /\ Len(messages[p[2]]) = issued[p[2]]
              /\ msg_count[p[2]] = issued[p[2]]

\* All appends have returned; one writer has failed, another has cut the file
\* and not yet written it.
C12_Witness ==
    /\ AppendsReturned
    /\ issued["user"] = MaxMsgs
    /\ Len(messages["user"]) = MaxMsgs
    /\ \E w \in Savers : saver[w].pc = "failed"
    /\ \E w \in Savers : saver[w].pc = "dump"

\* ------------------------------------------------------- pause and exit
\* The contents of the user messages in the log.
UserContents == {messages["user"][i].content : i \in DOMAIN messages["user"]}

\* C13: no user message in the log is a pause phrase, whether the phrase came
\* from a chunk inside the loop or from the last flush of the recognizer.
C13_PauseNeverAppended == \A c \in UserContents : Classify(c) # "pause"

\* The sentinel the spec names for the end of the conversation.
BYE == <<"/bye">>

\* Capture thread t is in the shutdown an exit phrase started: in the speech
\* of App.shutdown or past it.
InShutdown(t) ==
    \/ pc[t] = "exit_tail"
    \/ pc[t] \in {"spk_begin", "spk_synth"} /\ retpc[t] = "exit_tail"

\* C14: when an exit phrase has been handled, the shutdown flag is set, the
\* shutdown collaborator has been invoked and "/bye" is a user message.
C14_ExitAppendsBye ==
    \A t \in Caps : InShutdown(t) => ~running /\ BYE \in UserContents

\* C15: while the shutdown an exit phrase started is under way, no start
\* passes the check of trigger_listen, which leads to a baseline and a launch.
C15_NoSessionAfterExit ==
    [][(\E t \in Caps : InShutdown(t)) =>
           \A p \in Starts : ~(pc[p] = "idle" /\ pc'[p] = "tl_base")]_vars

\* ------------------------------------------------------------------ stop
\* C16: once stop() has returned, the shutdown flag the capture loop reads is
\* set, so that the loop ends at its next check and no capture loop starts.
C16_StopSetsShutdownFlag ==
    (\A p \in Stoppers : pc[p] = "done") => ~running

\* --------------------------------------------------------- silence timeout
\* C17: when the silence timeout has ended Recording, the state machine has
\* drained to Idle and no user message was appended since the baseline,
\* result() returns an empty list.
C17_TimeoutThenEmptyResult ==
    resRet.called /\ timed_out /\ RSMState = "Idle" /\ Quiet /\ SessionDelta = <<>> =>
        resRet.ready /\ resRet.msgs = <<>>

\* ------------------------------------------------------------------ faults
\* C18: when audio.open fails at the start of a session, the session is
\* aborted: the recording flag is cleared and the capture thread has ended.
C18_DeviceErrorBackToIdle ==
    [][\A t \in Caps :
          pc[t] = "rec_entry" /\ pc'[t] = "open_error" =>
              ~recording' /\ ~ \E i \in 1..MaxThreads : Alive(i)']_vars

\* C19: an error of the recognizer on one chunk never ends a capture thread:
\* the loop goes on.
C19_ChunkErrorSwallowed == \A t \in Caps : pc[t] # "chunk_error"

\* --------------------------------------------------------------- baseline
\* C20: the baseline changes only in the step of an accepted start that
\* records it (trigger_listen, line 51).
C20_BaselineFrame ==
    [][listen_start_user_count' # listen_start_user_count =>
           \E p \in Starts : pc[p] = "tl_base" /\ pc'[p] = "tg_check"]_vars

\* The baseline of the session is still the one its start recorded after the
\* capture thread appended messages, the silence timeout ended the session and
\* the hold and stop requests were handled.
C20_Witness ==
    /\ listen_start_user_count = 0
    /\ \A p \in Holds \cup Stoppers : pc[p] = "done"
    /\ timed_out
    /\ msg_count["user"] >= 1

\* The step in which start p records a baseline after an earlier start was
\* accepted and the hold request was handled.
RestartAfterHold(p) ==
    /\ pc[p] = "tl_base" /\ pc'[p] = "tg_check"
    /\ epoch >= 1
    /\ \A h \in Holds : pc[h] = "done"

\* C21 as stated: a start accepted after a hold keeps the baseline the first
\* start recorded.
C21_OldBaselineKept ==
    [][\A p \in Starts : RestartAfterHold(p) =>
           listen_start_user_count' = listen_start_user_count]_vars

\* C21 amended: a start accepted after a hold records a new baseline, the
\* counter of user messages at that moment.
C21_RestartRebases ==
    [][\A p \in Starts : RestartAfterHold(p) =>
           listen_start_user_count' = msg_count["user"]]_vars

\* The second start was accepted after the hold, and its baseline is not the
\* one of the first start.
C21_Witness ==
    /\ epoch = 2
    /\ \A h \in Holds : pc[h] = "done"
    /\ listen_start_user_count >= 1

\* C22: a start whose check finds the session Recording changes nothing: the
\* baseline, the recording flag, the thread object and the capture threads
\* stay as they are, and the call is over.
C22_StartWhileRecordingNoOp ==
    [][\A p \in Starts :
          pc[p] = "idle" /\ pc'[p] # "idle" /\ recording =>
              /\ pc'[p] = "done"
              /\ UNCHANGED <<listen_start_user_count, recording, recording_thread,
                             launches, epoch, is_listening, listening_lock>>
              /\ \A t \in Caps : pc'[t] = pc[t]]_vars

\* The second start is over while the first session, the only one, records.
C22_Witness ==
    /\ \A p \in Starts : pc[p] = "done"
    /\ epoch = 1 /\ launches = 1
    /\ recording /\ Alive(1)

\* C23: at every moment at most one capture thread is alive.
C23_OneCaptureThread == Cardinality(AliveCaps) <= 1

\* C24: when a capture thread reads a chunk, every capture thread started
\* before it has closed its stream and replaced the recognizer.
C24_NoCarryOver ==
    [][\A t \in Caps, o \in Caps :
          o[2] < t[2] /\ pc[t] = "read" /\ pc'[t] = "valid" =>
              ~StreamOpen(o) /\ RecognizerReset(o)]_vars

\* The shutdown flags are cleared (App.shutdown, lines 475-476).
Cancelled == ~running /\ ~cm_running

\* C25: once the flags are cleared, a capture thread at the top of its loop
\* leaves the loop, a capture thread waiting at the gate is not held there,
\* and the response thread at the top of its poll loop ends.
C25_CooperativeCancel ==
    [][Cancelled =>
          /\ \A t \in Caps : pc[t] = "loop" => pc'[t] \in {"loop", "final"}
          /\ \A t \in Caps : pc[t] = "gate" => ~speaking_flag
          /\ \A p \in Speakers : pc[p] = "idle" => pc'[p] \in {"idle", "done"}]_vars

\* A thread is between line 69 and line 74 of speak(): in the delay or in the
\* synthesis.
Synthesizing(p) == pc[p] = "spk_synth"

InPause(p) == pc[p] \in {"tg_pause", "tg_join"}

\* C27: when a toggle that found the session Recording returns, no capture
\* thread is alive.
C27_ToggleReturnsAfterCapture ==
    [][\A p \in Starts \cup Holds :
          InPause(p) /\ ~InPause(p)' => \A i \in 1..MaxThreads : ~Alive(i)']_vars

\* C28: no step of a hold() call starts a capture thread.
C28_HoldNeverLaunches ==
    [][launches' # launches => \E p \in Starts : pc[p] = "tg_spawn" /\ pc'[p] # "tg_spawn"]_vars

\* ----------------------------------------------------------- classification
\* Fragment u holds one of the phrases of set cmds.
HasPhrase(u, cmds) == \E cmd \in cmds : Contains(u, cmd)

\* Capture thread t leaves is_valid_text in this step, called with a
\* fragment that is neither empty nor a filler.
Classifies(t) ==
    /\ pc[t] = "valid" /\ pc'[t] # "valid"
    /\ text # <<>> /\ text \notin INVALID_TERMS

\* What the step did: ended the session, started the shutdown, appended the
\* fragment as a user message.
DidPause(t)  == recording /\ ~recording'
DidExit(t)   == (running /\ ~running') /\ pc'[t] = "spk_begin" /\ retpc'[t] = "exit_tail"
DidAppend(t) ==
    /\ issued'["user"] = issued["user"] + 1
    /\ apMsg'[t] = [role |-> "user", content |-> text, msg_timestamp |-> now]

\* C29: the rules are tried in order and exactly one applies: a pause phrase
\* pauses and does nothing else, also when the fragment holds an exit phrase
\* too; otherwise an exit phrase shuts down and does nothing else; otherwise
\* the fragment is appended and nothing else happens.
C29_OrderedRules ==
    [][\A t \in Caps : Classifies(t) =>
          IF HasPhrase(text, PAUSE_COMMANDS)
          THEN DidPause(t) /\ ~DidExit(t) /\ ~DidAppend(t)
          ELSE IF HasPhrase(text, EXIT_COMMANDS)
          THEN DidExit(t) /\ ~DidPause(t) /\ ~DidAppend(t)
          ELSE DidAppend(t) /\ ~DidPause(t) /\ ~DidExit(t)]_vars

\* C30: a fragment without a pause phrase starts the shutdown exactly when it
\* holds an exit phrase; every other such fragment is appended.
C30_ExitIffExitPhrase ==
    [][\A t \in Caps : Classifies(t) /\ ~HasPhrase(text, PAUSE_COMMANDS) =>
          /\ DidExit(t) <=> HasPhrase(text, EXIT_COMMANDS)
          /\ DidAppend(t) <=> ~HasPhrase(text, EXIT_COMMANDS)]_vars

\* ------------------------------------------------------------ what is appended
\* C31: no user message is empty or a filler word, and the silence timer is
\* reset exactly when a fragment has been appended in the loop (and when a
\* session begins).
C31_NoEmptyNoFiller ==
    /\ [](\A k \in 1..Len(messages["user"]) :
             /\ messages["user"][k].content # <<>>
             /\ messages["user"][k].content \notin INVALID_TERMS)
    /\ [][/\ \A t \in Caps : pc[t] = "after_append" /\ pc'[t] # "after_append" =>
                                  ~silence_expired'
          /\ silence_expired /\ ~silence_expired' =>
                 \E t \in Caps : pc[t] \in {"after_append", "rec_entry"}]_vars


\* ------------------------------------------------- the merge of both roles
\* The stored messages of both roles, the assistant's first.
BothRoles == messages["assistant"] \o messages["user"]

\* The place of the message at index i among all stored messages, ordered by
\* timestamp and, for equal timestamps, by index (assistant before user, each
\* role in append order).
Rank(i) ==
    1 + Cardinality({j \in 1..Len(BothRoles) :
            \/ BothRoles[j].msg_timestamp < BothRoles[i].msg_timestamp
            \/ /\ BothRoles[j].msg_timestamp = BothRoles[i].msg_timestamp
               /\ j < i})

Merged ==
    [r \in 1..Len(BothRoles) |->
        BothRoles[CHOOSE i \in 1..Len(BothRoles) : Rank(i) = r]]

\* C32: get_last_n without a role returns at most n messages, the tail of the
\* merge of both roles ordered by non-decreasing timestamp with equal
\* timestamps in the order assistant before user and append order within a
\* role, and the call leaves the stored lists of both roles as they are.
C32_MergedTail ==
    /\ [](getArg.called /\ getArg.role = NoRole =>
            LET k == Len(getRet)
                l == Len(Merged)
            IN  /\ k <= getArg.n
                /\ getRet = SubSeq(Merged, l - k + 1, l)
                /\ \A a, b \in 1..k :
                      a < b => getRet[a].msg_timestamp <= getRet[b].msg_timestamp)
    /\ [][getArg'.called /\ getArg'.role = NoRole => messages' = messages]_vars


\* ------------------------------------------------------------- fair turns
\* One step of capture thread t.
CaptureStep(t) ==
    (\/ RecordEntry(t) \/ LoopCheck(t) \/ GatePass(t) \/ ReadChunk(t)
     \/ IsValidText(t) \/ AppendUser(t) \/ ResetTimer(t) \/ ExitTail(t)
     \/ FinalFlush(t) \/ SpeakBegin(t) \/ SpeakEnd(t) \/ PlayBegin(t) \/ PlayEnd(t)
     \/ append_message_insert(t) \/ append_message_read(t)
     \/ append_message_write(t)) /\ Forget

\* Every thread that can take a step takes one in the end, and every synthesis
\* call returns.  The gate samples the flag every 50 ms (line 231) and the
\* response thread sleeps 0.5 s between two speak calls (line 377), so a
\* capture thread that waits at the gate or for the output lock, and can go
\* on again and again, does go on: strong fairness for the capture threads.
FairTurn ==
    /\ \A t \in Caps : SF_vars(CaptureStep(t))
    /\ \A p \in Speakers : WF_vars(SpeakEnd(p) /\ Forget)

\* One session started by /listen, with the response thread.
NextGate ==
    (\/ \E p \in FirstStart : TriggerCheck(p)
     \/ \E p \in FirstStart : TriggerBase(p)
     \/ \E p \in FirstStart : TriggerEnd(p)
     \/ \E p \in FirstStart : ToggleCheck(p)
     \/ \E p \in FirstStart : StartRecording(p)
     \/ \E p \in FirstStart : SpawnThread(p)
     \/ NextOneCapture
     \/ NextSpeaker) /\ Forget

SpecGate == Init /\ [][NextGate]_vars /\ FairTurn

\* C33: a capture loop that waits at the gate leaves it and reads a chunk once
\* the output signal is clear; with fair scheduling and synthesis calls that
\* return no capture loop waits at the gate for ever.
C33_GateLiveness ==
    \A t \in Caps : (pc[t] = "gate") ~> (pc[t] = "read")

\* A capture thread waits at the gate while another thread is speaking.
C33_Witness ==
    \E t \in Caps : pc[t] = "gate" /\ speaking_flag /\ tts_lock \in Speakers


\* ---------------------------------------------------------------- VoskClient
vServer == <<vConv, pc, retpc, vAp, joinTarget, vLis, vSpk, vSrv, issued, vHist, vFile>>

\* _toggle_listening, line 38
Endpoint == IF client.is_listening THEN "hold" ELSE "listen"

\* Python's `if result:` is false for None and for the empty list
Truthy(r) == r.ready /\ r.msgs # <<>>

\* _toggle_listening, lines 38-45: the POST is answered, is_listening is turned
\* round, and after a hold the thread goes on in _get_result.  The client sends
\* each request once.
ToggleListening ==
    /\ client.pc = "ready"
    /\ Endpoint \notin client.posted
    /\ client' = [is_listening |-> ~client.is_listening,
                  pc           |-> IF client.is_listening THEN "poll" ELSE "ready",
                  posted       |-> client.posted \cup {Endpoint},
                  poll_ended   |-> "no"]
    /\ UNCHANGED vServer

\* _toggle_listening, lines 42, 46-47: the request reaches the server and its
\* answer does not arrive within the timeout; the error is printed
TogglePostFails ==
    /\ client.pc = "ready"
    /\ Endpoint \notin client.posted
    /\ client' = [client EXCEPT !.posted = @ \cup {Endpoint}]
    /\ UNCHANGED vServer

\* _get_result, lines 23-29 and 33: GET /result is answered; a result that is
\* true ends the loop (line 34), any other is followed by a sleep of 1 s
GetResult ==
    /\ client.pc = "poll"
    /\ resRet' = ResultValue
    /\ getArg' = NoGet
    /\ getRet' = <<>>
    /\ client' = IF Truthy(ResultValue)
                 THEN [client EXCEPT !.pc = "ready", !.is_listening = FALSE,
                                     !.poll_ended = "result"]
                 ELSE client
    /\ UNCHANGED vServer

\* _get_result, lines 23-24 and 30-34: the GET raises a RequestException; the
\* error is printed, the loop is left and is_listening is cleared
GetResultFails ==
    /\ client.pc = "poll"
    /\ client' = [client EXCEPT !.pc = "ready", !.is_listening = FALSE,
                                !.poll_ended = "error"]
    /\ UNCHANGED vServer

\* run, lines 57-60: KeyboardInterrupt ends the client and its daemon threads
ClientExit ==
    /\ client.pc \in {"ready", "poll"}
    /\ client' = [client EXCEPT !.pc = "exited",
                                !.poll_ended = IF client.pc = "poll" THEN "cancel" ELSE @]
    /\ UNCHANGED vServer

\* The remote client with the server it talks to: one /listen and one /hold,
\* each handled by the server once the request has reached it.
NextClient ==
    \/ (\/ ToggleListening
        \/ TogglePostFails
        \/ GetResultFails
        \/ ClientExit
        \/ \E p \in FirstStart : "listen" \in client.posted /\ TriggerCheck(p)
        \/ \E p \in FirstStart : TriggerBase(p)
        \/ \E p \in FirstStart : TriggerEnd(p)
        \/ \E p \in FirstStart : ToggleCheck(p)
        \/ \E p \in FirstStart : StartRecording(p)
        \/ \E p \in FirstStart : SpawnThread(p)
        \/ \E p \in Holds : "hold" \in client.posted /\ HoldRequest(p)
        \/ \E p \in Holds : ToggleCheck(p)
        \/ \E p \in Holds : StartRecording(p)
        \/ \E p \in Holds : SpawnThread(p)
        \/ \E p \in FirstStart \cup Holds : PauseRecording(p)
        \/ \E p \in FirstStart \cup Holds : JoinReturns(p)
        \/ NextCapture) /\ Forget
    \/ GetResult

SpecClient == Init /\ [][NextClient]_vars

\* C34: when a poll of /result fails with a transport error the client goes
\* on polling: the polling loop is left only with a result or when the caller
\* cancels.
C34_RetryOnTransportError == client.poll_ended \in {"no", "result", "cancel"}

\* C35: after the hold the polling ends once the session is Idle, whatever the
\* session produced: a poll answered with the list of an Idle session, the
\* empty list included, leaves the client ready and not listening.
C35_PollingEndsWhenIdle ==
    /\ (/\ resRet.called /\ resRet.ready
        /\ launches >= 1 /\ RSMState = "Idle" /\ AliveCaps = {}
        /\ \A p \in FirstStart \cup Holds : pc[p] = "done") =>
           client.pc # "poll"
    /\ client.pc = "ready" /\ "hold" \in client.posted /\ client.poll_ended # "no" =>
           ~client.is_listening


\* C36: result() reads and changes nothing: a call leaves the baseline, the
\* conversation log and the recording state as they are, and a second call
\* that follows a call in Idle, with no append and no start between the two,
\* returns the list the first returned.
C36_ResultReadOnly ==
    [][/\ resRet'.called =>
            /\ listen_start_user_count' = listen_start_user_count
            /\ messages' = messages
            /\ msg_count' = msg_count
            /\ recording' = recording
            /\ recording_thread' = recording_thread
            /\ pc' = pc
       /\ resRet.called /\ resRet'.called /\ RSMState = "Idle" => resRet' = resRet]_vars

\* result() has returned the messages of a session that is Idle.
C36_Witness ==
    /\ resRet.called /\ resRet.ready /\ resRet.msgs # <<>>
    /\ RSMState = "Idle"
    /\ listen_start_user_count = 0


\* ------------------------------------------------ records of the transcript
\* How often record m occurs in list ms.
Occurrences(ms, m) == Cardinality({k \in 1..Len(ms) : ms[k] = m})

\* C37: whatever the writer threads do, every record of the transcript file
\* is a message of the in-memory log, and it is in the file at most as often
\* as it was appended.
C37_NoDuplicateNoInvention ==
    \A k \in 1..Len(file.data) :
        LET m == file.data[k]
        IN  /\ m.role \in Roles
            /\ Occurrences(messages[m.role], m) >= 1
            /\ Occurrences(file.data, m) <= Occurrences(messages[m.role], m)

\* The file holds two records while a later writer, which read the file when
\* it held fewer, is about to cut it.
C37_Witness ==
    /\ file.state = "ok"
    /\ Len(file.data) = 2
    /\ \E w \in Savers : saver[w].pc = "open" /\ Len(saver[w].local) <= 2


\* ------------------------------------------------------ synthesis that fails
\* One session started by /listen, with the response thread, and a synthesis
\* engine that can raise.
NextSynth ==
    \/ NextGate
    \/ (\E p \in Caps \cup Speakers : SpeakFails(p)) /\ Forget

SpecSynth == Init /\ [][NextSynth]_vars

\* C38: whenever no speak() call is in progress the output signal is clear,
\* also after a call in which the synthesis raised: a failed synthesis does
\* not leave the gate closed.
C38_FlagClearAfterFailure ==
    (\A p \in Procs : pc[p] \notin {"spk_synth"}) => ~speaking_flag


\* ------------------------------------------------------ calls that terminate
\* One step of the thread that handles request p.
HandlerStep(p) ==
    (\/ TriggerCheck(p) \/ TriggerBase(p) \/ TriggerEnd(p) \/ HoldRequest(p)
     \/ ToggleCheck(p) \/ StartRecording(p) \/ SpawnThread(p)
     \/ PauseRecording(p) \/ JoinReturns(p)) /\ Forget

\* One /listen and one /hold with the capture threads they start, and the
\* response thread speaking.
NextJoin ==
    (\/ \E p \in FirstStart : TriggerCheck(p)
     \/ \E p \in FirstStart : TriggerBase(p)
     \/ \E p \in FirstStart : TriggerEnd(p)
     \/ \E p \in FirstStart : ToggleCheck(p)
     \/ \E p \in FirstStart : StartRecording(p)
     \/ \E p \in FirstStart : SpawnThread(p)
     \/ \E p \in Holds : HoldRequest(p)
     \/ \E p \in Holds : ToggleCheck(p)
     \/ \E p \in Holds : StartRecording(p)
     \/ \E p \in Holds : SpawnThread(p)
     \/ \E p \in FirstStart \cup Holds : PauseRecording(p)
     \/ \E p \in FirstStart \cup Holds : JoinReturns(p)
     \/ NextCapture
     \/ NextSpeaker) /\ Forget

\* Fair scheduling of the handlers and of the capture threads; audio reads and
\* synthesis calls return.
FairJoin ==
    /\ FairTurn
    /\ \A p \in FirstStart \cup Holds : WF_vars(HandlerStep(p))

SpecJoin == Init /\ [][NextJoin]_vars /\ FairJoin

\* A request whose handler has begun and not yet returned.
InCall(p) == pc[p] \notin {"idle", "done"}

====
